---- MODULE Spec2Model ----
(***************************************************************************)
(* Public Transport Victoria integration: the Connector (departures and    *)
(* disruptions refresh, Throttle), and the global polling coordinator.     *)
(*                                                                         *)
(* JSON values are modelled with one record shape per Python type, so that *)
(* values of different types are unequal:                                  *)
(*   None            [none |-> TRUE]                                       *)
(*   int n           [int |-> n]                                           *)
(*   str s           [str |-> s]                                           *)
(*   a wire timestamp string "YYYY-MM-DDTHH:MM:SSZ" of the model's one     *)
(*   day             [h |-> HH, m |-> MM, s |-> SS]                        *)
(*   dict            a function from key strings (a record)                *)
(*   list            a sequence                                            *)
(* and, where the code tests a value's type with isinstance,               *)
(*   list            [list |-> the sequence]                               *)
(*   dict            [dict |-> the function], with keys |-> the keys in    *)
(*                   iteration order where the code iterates over it       *)
(* An instant is a number of seconds since the day's midnight UTC.         *)
(***************************************************************************)
EXTENDS Integers, Sequences, FiniteSets, TLC

VARIABLES
    now,                  \* wall clock (datetime.now / utcnow), seconds
    departures_path,      \* Connector.departures_path; Unset before _init
    departures,           \* Connector.departures; Unset until first stored
    disruptions_current,  \* Connector.disruptions_current
    disruptions_planned,  \* Connector.disruptions_planned
    route,                \* Connector.route
    route_type,           \* Connector.route_type
    throttle,             \* Throttle's last-run stamp of async_update
    coordinator,          \* the DataUpdateCoordinator: data, last_update_success, scheduled
    pending,              \* the HTTP response body the upstream API will answer with
    requestedAt,          \* history: when async_update last sent its GET
    last                  \* history: what the latest call did

vars == <<now, departures_path, departures, disruptions_current,
          disruptions_planned, route, route_type, throttle, coordinator,
          pending, requestedAt, last>>

-----------------------------------------------------------------------------
(* Values *)

None == [none |-> TRUE]

\* An attribute that was never assigned: reading it raises AttributeError.
Unset == [unset |-> TRUE]

IntV(n) == [int |-> n]

StrV(s) == [str |-> s]

JList(s) == [list |-> s]

JDict(f) == [dict |-> f]

Wire(hh, mm, ss) == [h |-> hh, m |-> mm, s |-> ss]

IsWire(v) == DOMAIN v = {"h", "m", "s"}

\* Python truthiness of a JSON scalar: None, "" and 0 are falsy.
Truthy(v) ==
    IF v = None THEN FALSE
    ELSE IF DOMAIN v = {"str"} THEN v.str # ""
    ELSE IF DOMAIN v = {"int"} THEN v.int # 0
    ELSE TRUE

\* {}
EmptyDict == [k \in {} |-> None]

\* dict.get(key): None when the key is missing.
Get(d, k) == IF k \in DOMAIN d THEN d[k] ELSE None

\* str(v) of a scalar.
PyStr(v) ==
    IF v = None THEN "None"
    ELSE IF DOMAIN v = {"int"} THEN ToString(v.int)
    ELSE v.str

SecondsPerMinute == 60

MinutesPerHour == 60

HoursPerDay == 24

\* datetime.strptime(utc_str, "%Y-%m-%dT%H:%M:%SZ"): ok with the instant, or
\* not ok (ValueError on a string of another form, TypeError on a non-string).
strptime(v) ==
    IF /\ IsWire(v)
       /\ v.h \in 0..(HoursPerDay - 1)
       /\ v.m \in 0..(MinutesPerHour - 1)
       /\ v.s \in 0..(SecondsPerMinute - 1)
    THEN [ok |-> TRUE,
          t |-> (v.h * MinutesPerHour + v.m) * SecondsPerMinute + v.s]
    ELSE [ok |-> FALSE]

\* A key that keeps the seconds.
MinuteKeyNoTruncation(t) == <<t \div (MinutesPerHour * SecondsPerMinute), t>>

\* dep_utc.strftime("%Y-%m-%dT%H:%M"): the instant truncated to its minute.
MinuteKey(t) ==
    <<t \div (MinutesPerHour * SecondsPerMinute),
      (t \div SecondsPerMinute) % MinutesPerHour>>

\* hass.config.time_zone as a fixed offset from UTC, in hours.
TimeZoneOffsetHours == 11

\* convert_utc_to_local: parse, shift to the local zone, strftime("%I:%M %p").
convert_utc_to_local(utc) ==
    LET d     == strptime(utc).t
        local == (d + TimeZoneOffsetHours * MinutesPerHour * SecondsPerMinute)
                     % (HoursPerDay * MinutesPerHour * SecondsPerMinute)
        hour  == local \div (MinutesPerHour * SecondsPerMinute)
        hour12 == IF hour % 12 = 0 THEN 12 ELSE hour % 12
    IN  [I |-> hour12,
         M |-> (local \div SecondsPerMinute) % MinutesPerHour,
         p |-> IF hour < 12 THEN "AM" ELSE "PM"]

-----------------------------------------------------------------------------
(* Departure Processor: the body of Connector.async_update on a 200 *)

\* r["estimated_departure_utc"] or r["scheduled_departure_utc"]; a missing
\* key raises KeyError (ok = FALSE), outside the try block.
SelectUtcStr(r) ==
    IF "estimated_departure_utc" \notin DOMAIN r THEN [ok |-> FALSE]
    ELSE IF Truthy(r["estimated_departure_utc"])
         THEN [ok |-> TRUE, v |-> r["estimated_departure_utc"]]
    ELSE IF "scheduled_departure_utc" \notin DOMAIN r THEN [ok |-> FALSE]
    ELSE [ok |-> TRUE, v |-> r["scheduled_departure_utc"]]

\* One pass of the loop over response["departures"]: "raise" (KeyError
\* leaves the method), "skip" (continue), or "keep" the entry with _dep_utc
\* and departure attached.
DepartureEntry(r) ==
    LET sel == SelectUtcStr(r) IN
    IF ~sel.ok THEN [kind |-> "raise"]
    ELSE IF ~Truthy(sel.v) THEN [kind |-> "skip"]
    ELSE IF ~strptime(sel.v).ok THEN [kind |-> "skip"]
    ELSE [kind |-> "keep",
          rec |-> ("_dep_utc" :> strptime(sel.v).t)
                  @@ ("departure" :> convert_utc_to_local(sel.v))
                  @@ r]

\* The outcome of a computation: an exception left it, or it gave a value.
Raised == [raised |-> TRUE]

Returned(v) == [value |-> v]

RECURSIVE DeparturesRaw(_)
\* departures_raw, or Raised when a pass raised.
DeparturesRaw(rs) ==
    IF rs = <<>> THEN Returned(<<>>)
    ELSE LET e == DepartureEntry(Head(rs)) IN
         IF e.kind = "raise" THEN Raised
         ELSE LET rest == DeparturesRaw(Tail(rs)) IN
              IF rest = Raised THEN Raised
              ELSE IF e.kind = "skip" THEN rest
              ELSE Returned(<<e.rec>> \o rest.value)

\* A filter that keeps the departure of this very instant.
FutureNotStrict(ds, now_utc) ==
    SelectSeq(ds, LAMBDA d : d["_dep_utc"] >= now_utc)

\* future = [d for d in departures_raw if d["_dep_utc"] > now_utc]
Future(ds, now_utc) == SelectSeq(ds, LAMBDA d : d["_dep_utc"] > now_utc)

RECURSIVE DedupeFrom(_, _)
DedupeFrom(ds, seen_keys) ==
    IF ds = <<>> THEN <<>>
    ELSE LET key == MinuteKey(Head(ds)["_dep_utc"]) IN
         IF key \in seen_keys THEN DedupeFrom(Tail(ds), seen_keys)
         ELSE <<Head(ds)>> \o DedupeFrom(Tail(ds), seen_keys \cup {key})

\* No de-duplication.
NoDedupe(ds) == ds

\* the seen_keys loop: first occurrence of each minute wins.
Dedupe(ds) == DedupeFrom(ds, {})

RECURSIVE InsertSorted(_, _)
\* insert d after every element whose key is <= its own (list.sort is stable)
InsertSorted(sorted, d) ==
    IF sorted = <<>> THEN <<d>>
    ELSE IF Head(sorted)["_dep_utc"] <= d["_dep_utc"]
         THEN <<Head(sorted)>> \o InsertSorted(Tail(sorted), d)
    ELSE <<d>> \o sorted

RECURSIVE SortByDepUtc(_)
\* deduped.sort(key=lambda x: x["_dep_utc"])
SortByDepUtc(ds) ==
    IF ds = <<>> THEN <<>>
    ELSE InsertSorted(SortByDepUtc(SubSeq(ds, 1, Len(ds) - 1)), ds[Len(ds)])

DepartureCap == 5

\* No cap.
NoCap(ds) == ds

\* deduped[:5]
Cap(ds) == SubSeq(ds, 1, IF Len(ds) < DepartureCap THEN Len(ds) ELSE DepartureCap)

\* The processor with entries of a seen minute dropped before the past ones.
ProcessDeparturesDedupeFirst(body, now_utc) ==
    IF "departures" \notin DOMAIN body THEN Raised
    ELSE LET departures_raw == DeparturesRaw(body["departures"]) IN
         IF departures_raw = Raised THEN Raised
         ELSE Returned(
                Cap(SortByDepUtc(Future(Dedupe(departures_raw.value), now_utc))))

\* What async_update stores for a 200 body at now_utc; Raised when
\* response["departures"] or an entry's timestamp key is missing (KeyError).
ProcessDepartures(body, now_utc) ==
    IF "departures" \notin DOMAIN body THEN Raised
    ELSE LET departures_raw == DeparturesRaw(body["departures"]) IN
         IF departures_raw = Raised THEN Raised
         ELSE Returned(
                Cap(SortByDepUtc(Dedupe(Future(departures_raw.value, now_utc)))))

-----------------------------------------------------------------------------
(* Disruption Processor: the body of Connector.async_update_disruptions *)

\* isinstance(v, list)
IsList(v) == DOMAIN v = {"list"}

\* isinstance(v, dict)
IsDict(v) == "dict" \in DOMAIN v

\* a or b
PyOr(a, b) == IF Truthy(a) THEN a ELSE b

RECURSIVE ExtendAll(_)
\* disruptions_raw.extend(value) for each list among the values
ExtendAll(values) ==
    IF values = <<>> THEN <<>>
    ELSE IF IsList(Head(values)) THEN Head(values).list \o ExtendAll(Tail(values))
    ELSE ExtendAll(Tail(values))

\* dict.values(), in iteration order
Values(d) == [i \in 1..Len(d.keys) |-> d.dict[d.keys[i]]]

\* A flattening that takes the first category only.
FirstValueOnly(response) ==
    LET v == Get(response, "disruptions") IN
    IF IsList(v) THEN v.list
    ELSE IF IsDict(v) /\ Len(v.keys) > 0 THEN ExtendAll(<<Values(v)[1]>>)
    ELSE <<>>

\* disruptions_raw: the list itself, or the lists under the dict combined
DisruptionsRaw(response) ==
    LET v == Get(response, "disruptions") IN
    IF IsList(v) THEN v.list
    ELSE IF IsDict(v) THEN ExtendAll(Values(v))
    ELSE <<>>

\* routes_list: id and type of every dict under d["routes"], when a list
RoutesList(d) ==
    LET routes == Get(d.dict, "routes")
        refs   == IF IsList(routes) THEN SelectSeq(routes.list, IsDict) ELSE <<>>
    IN  [i \in 1..Len(refs) |->
            [route_id   |-> Get(refs[i].dict, "route_id"),
             route_type |-> Get(refs[i].dict, "route_type")]]

\* [s.get("stop_id") for s in d.get("stops", []) if isinstance(s, dict)];
\* Raised (TypeError) when the value cannot be iterated.
StopIds(d) ==
    IF "stops" \notin DOMAIN d.dict THEN Returned(<<>>)
    ELSE LET stops == d.dict["stops"] IN
         IF IsList(stops)
         THEN LET ds == SelectSeq(stops.list, IsDict) IN
              Returned([i \in 1..Len(ds) |-> Get(ds[i].dict, "stop_id")])
         ELSE IF IsDict(stops) \/ DOMAIN stops = {"str"} THEN Returned(<<>>)
         ELSE Raised

\* _safe_local: None for a falsy value, the local iso and human strings of a
\* wire timestamp, and the value itself twice when it does not parse.
safe_local(utc) ==
    IF ~Truthy(utc) THEN None
    ELSE IF strptime(utc).ok
    THEN LET d     == strptime(utc).t
             local == (d + TimeZoneOffsetHours * MinutesPerHour * SecondsPerMinute)
                          % (HoursPerDay * MinutesPerHour * SecondsPerMinute)
         IN  [iso   |-> [h |-> local \div (MinutesPerHour * SecondsPerMinute),
                         m |-> (local \div SecondsPerMinute) % MinutesPerHour,
                         s |-> local % SecondsPerMinute,
                         utcoffset |-> TimeZoneOffsetHours],
              human |-> convert_utc_to_local(utc)]
    ELSE [iso |-> utc, human |-> utc]

\* One pass of the normalising loop: ok with the trimmed record, or not ok
\* when the pass raised (d is no dict, stops cannot be iterated): the except
\* clause logs and the loop goes on.
Normalise(d) ==
    IF ~IsDict(d) THEN [ok |-> FALSE]
    ELSE IF StopIds(d) = Raised THEN [ok |-> FALSE]
    ELSE LET g(k) == Get(d.dict, k) IN
      [ok |-> TRUE,
       rec |-> [disruption_id     |-> g("disruption_id"),
                title             |-> g("title"),
                description       |-> g("description"),
                disruption_status |-> g("disruption_status"),
                from_date         |-> PyOr(g("from_date"), g("from_time")),
                to_date           |-> PyOr(g("to_date"), g("to_time")),
                last_updated      |-> g("last_updated"),
                url               |-> PyOr(g("url"), g("url_web")),
                routes            |-> RoutesList(d),
                severity          |-> PyOr(g("severity"), g("severity_level")),
                category          |-> PyOr(g("category"), g("disruption_type")),
                stops             |-> StopIds(d).value,
                from_date_local   |-> safe_local(PyOr(g("from_date"), g("from_time"))),
                to_date_local     |-> safe_local(PyOr(g("to_date"), g("to_time")))]]

RECURSIVE Normalised(_)
\* normalised: the trimmed record of every raw disruption that normalises
Normalised(raw) ==
    IF raw = <<>> THEN <<>>
    ELSE LET n == Normalise(Head(raw)) IN
         IF n.ok THEN <<n.rec>> \o Normalised(Tail(raw))
         ELSE Normalised(Tail(raw))

\* A match that takes any falsy route type, 0 included, for an absent one.
RouteMatchesFalsyType(r, route_id_str, route_type_str) ==
    /\ PyStr(r.route_id) = route_id_str
    /\ (~Truthy(r.route_type) \/ PyStr(r.route_type) = route_type_str)

\* str(r.get("route_id")) == route_id_str and
\* (r.get("route_type") is None or str(r.get("route_type")) == route_type_str)
RouteMatches(r, route_id_str, route_type_str) ==
    /\ PyStr(r.route_id) = route_id_str
    /\ (r.route_type = None \/ PyStr(r.route_type) = route_type_str)

\* filtered: the normalised records with any route reference that matches
Filtered(normalised, cfg_route, cfg_route_type) ==
    SelectSeq(normalised,
              LAMBDA n : \E i \in 1..Len(n.routes) :
                  RouteMatches(n.routes[i], PyStr(cfg_route), PyStr(cfg_route_type)))

\* What async_update_disruptions stores for a 200 body.
ProcessDisruptions(response, cfg_route, cfg_route_type) ==
    Filtered(Normalised(DisruptionsRaw(response)), cfg_route, cfg_route_type)

-----------------------------------------------------------------------------
(* The Connector *)

MIN_TIME_BETWEEN_UPDATES == 2 * SecondsPerMinute

MAX_RESULTS == 10

HttpOk == 200

\* The statuses the upstream API answers with: success, and one other.
HttpStatuses == {HttpOk, 503}

\* No GET was ever sent.
Never == 0 - 1

\* The fields of the Snapshot.
Snapshot == <<departures, disruptions_current, disruptions_planned>>

\* What a call did: the operation, its argument, whether it sent its GET and
\* the status answered, whether it raised, and what it returned.
Call(op, arg, request, status, raised, returned) ==
    [op |-> op, arg |-> arg, request |-> request, status |-> status,
     raised |-> raised, returned |-> returned, flip |-> ~last.flip]

\* No status: the call sent no GET.
NoStatus == Never

\* async_update that forgets the departures when the answer is not a 200.
AsyncUpdateBodyClearing(op, status, body) ==
    LET result == IF status = HttpOk THEN ProcessDepartures(body, now)
                  ELSE Raised
        stored == status = HttpOk /\ result # Raised
        after  == IF stored THEN JList(result.value)
                  ELSE IF status # HttpOk /\ departures # Unset THEN JList(<<>>)
                  ELSE departures
        raised == (status = HttpOk /\ result = Raised) \/ after = Unset
    IN  /\ departures' = after
        /\ requestedAt' = now
        /\ last' = Call(op, None, TRUE, status, raised,
                        IF raised THEN Raised ELSE None)

\* The body of async_update: the GET, the Departure Processor on a 200, and
\* the debug loop over self.departures, which raises AttributeError while the
\* attribute has never been assigned.
AsyncUpdateBody(op, status, body) ==
    LET result == IF status = HttpOk THEN ProcessDepartures(body, now)
                  ELSE Raised
        stored == status = HttpOk /\ result # Raised
        after  == IF stored THEN JList(result.value) ELSE departures
        raised == (status = HttpOk /\ result = Raised) \/ after = Unset
    IN  /\ departures' = after
        /\ requestedAt' = now
        /\ last' = Call(op, None, TRUE, status, raised,
                        IF raised THEN Raised ELSE None)

\* A Throttle that never holds a call back.
ThrottleAllowsAlways == TRUE

\* Throttle: the method runs when it never ran, or ran more than min_time ago.
ThrottleAllows ==
    throttle = None \/ now - throttle.int > MIN_TIME_BETWEEN_UPDATES

\* @Throttle(MIN_TIME_BETWEEN_UPDATES) around async_update: run the method
\* and stamp the run, or return None without running it.
ThrottledAsyncUpdate(op, status, body) ==
    IF ThrottleAllows
    THEN /\ throttle' = IntV(now)
         /\ AsyncUpdateBody(op, status, body)
    ELSE /\ last' = Call(op, None, FALSE, NoStatus, FALSE, None)
         /\ UNCHANGED <<throttle, departures, requestedAt>>

\* Connector._init: format the departures path, then the first async_update.
ConnectorInit(status, body) ==
    /\ departures_path = Unset
    /\ departures_path' = [route_type |-> route_type, route |-> route,
                           max_results |-> MAX_RESULTS]
    /\ ThrottledAsyncUpdate("_init", status, body)
    /\ UNCHANGED <<now, disruptions_current, disruptions_planned, route,
                   route_type, coordinator, pending>>

\* Connector.async_update, called once _init has set the departures path.
AsyncUpdate(status, body) ==
    /\ departures_path # Unset
    /\ ThrottledAsyncUpdate("async_update", status, body)
    /\ UNCHANGED <<now, departures_path, disruptions_current,
                   disruptions_planned, route, route_type, coordinator, pending>>

\* async_update_disruptions that stores what it filtered in both fields.
AsyncUpdateDisruptionsStoresBoth(disruption_status, status, body) ==
    LET filtered == ProcessDisruptions(body, route, route_type)
        current  == IF status = HttpOk THEN filtered ELSE disruptions_current
        planned  == IF status = HttpOk THEN filtered ELSE disruptions_planned
    IN  /\ disruptions_current' = current
        /\ disruptions_planned' = planned
        /\ last' = Call("async_update_disruptions", IntV(disruption_status),
                        TRUE, status, FALSE,
                        JList(IF disruption_status = 0 THEN current ELSE planned))
        /\ UNCHANGED <<now, departures_path, departures, route, route_type,
                       throttle, coordinator, pending, requestedAt>>

\* Connector.async_update_disruptions(disruption_status): the GET, the
\* Disruption Processor on a 200, the store by status, the return.
AsyncUpdateDisruptions(disruption_status, status, body) ==
    LET filtered == ProcessDisruptions(body, route, route_type)
        current  == IF status = HttpOk /\ disruption_status = 0
                    THEN filtered ELSE disruptions_current
        planned  == IF status = HttpOk /\ disruption_status # 0
                    THEN filtered ELSE disruptions_planned
    IN  /\ disruptions_current' = current
        /\ disruptions_planned' = planned
        /\ last' = Call("async_update_disruptions", IntV(disruption_status),
                        TRUE, status, FALSE,
                        JList(IF disruption_status = 0 THEN current ELSE planned))
        /\ UNCHANGED <<now, departures_path, departures, route, route_type,
                       throttle, coordinator, pending, requestedAt>>

-----------------------------------------------------------------------------
(* The discovery calls *)

\* The dict a discovery call fills from the list under listKey, one
\* assignment per entry in order, so that a later entry of an id replaces an
\* earlier one; a subscript of a key that is not there raises KeyError.
IdToName(response, listKey, idKey, nameKey) ==
    IF listKey \notin DOMAIN response THEN Raised
    ELSE LET rs == response[listKey]
             lastOf(id) == CHOOSE i \in DOMAIN rs :
                               /\ rs[i][idKey] = id
                               /\ \A j \in DOMAIN rs : rs[j][idKey] = id => j <= i
         IN  IF \E i \in DOMAIN rs : {idKey, nameKey} \ DOMAIN rs[i] # {}
             THEN Raised
             ELSE Returned([id \in {rs[i][idKey] : i \in DOMAIN rs} |->
                               rs[lastOf(id)][nameKey]])

\* What a discovery call did: it sent its GET; on a 200 it raised or returned
\* its dict; on another status it fell off its end and returned None.
DiscoveryCall(op, arg, status, mapping) ==
    Call(op, arg, TRUE, status, status = HttpOk /\ mapping = Raised,
         IF status = HttpOk /\ mapping # Raised
         THEN JDict(mapping.value) ELSE None)

\* Connector.async_route_types().
AsyncRouteTypes(status, body) ==
    LET route_types == IdToName(body, "route_types", "route_type",
                                "route_type_name")
    IN  /\ last' = DiscoveryCall("async_route_types", None, status, route_types)
        /\ UNCHANGED <<now, departures_path, departures, disruptions_current,
                       disruptions_planned, route, route_type, throttle,
                       coordinator, pending, requestedAt>>

\* Connector.async_routes(route_type): self.route_type is set after the loop.
AsyncRoutes(selected, status, body) ==
    LET routes == IdToName(body, "routes", "route_id", "route_name")
    IN  /\ route_type' = IF status = HttpOk /\ routes # Raised
                         THEN selected ELSE route_type
        /\ last' = DiscoveryCall("async_routes", selected, status, routes)
        /\ UNCHANGED <<now, departures_path, departures, disruptions_current,
                       disruptions_planned, route, throttle, coordinator,
                       pending, requestedAt>>

\* async_directions that selects the route whatever the answer.
AsyncDirectionsAlwaysSelects(selected, status, body) ==
    LET directions == IdToName(body, "directions", "direction_id",
                               "direction_name")
    IN  /\ route' = selected
        /\ last' = DiscoveryCall("async_directions", selected, status, directions)
        /\ UNCHANGED <<now, departures_path, departures, disruptions_current,
                       disruptions_planned, route_type, throttle, coordinator,
                       pending, requestedAt>>

\* Connector.async_directions(route): self.route is set after the loop.
AsyncDirections(selected, status, body) ==
    LET directions == IdToName(body, "directions", "direction_id",
                               "direction_name")
    IN  /\ route' = IF status = HttpOk /\ directions # Raised
                    THEN selected ELSE route
        /\ last' = DiscoveryCall("async_directions", selected, status, directions)
        /\ UNCHANGED <<now, departures_path, departures, disruptions_current,
                       disruptions_planned, route_type, throttle, coordinator,
                       pending, requestedAt>>

\* Connector.async_stops(route): self.route is set after the loop.
AsyncStops(selected, status, body) ==
    LET stops == IdToName(body, "stops", "stop_id", "stop_name")
    IN  /\ route' = IF status = HttpOk /\ stops # Raised
                    THEN selected ELSE route
        /\ last' = DiscoveryCall("async_stops", selected, status, stops)
        /\ UNCHANGED <<now, departures_path, departures, disruptions_current,
                       disruptions_planned, route_type, throttle, coordinator,
                       pending, requestedAt>>

-----------------------------------------------------------------------------
(* The global coordinator *)

\* The methods class Connector defines.
ConnectorMethods ==
    {"__init__", "_init", "async_route_types", "async_routes",
     "async_directions", "async_stops", "async_update",
     "async_update_disruptions"}

\* A coordinator that stops polling once a refresh has raised.
UpdateFailedStops(c) == [c EXCEPT !.last_update_success = FALSE, !.scheduled = FALSE]

\* DataUpdateCoordinator on a refresh that raised: the data stays, the
\* failure is recorded, the refresh stays scheduled.
UpdateFailed(c) == [c EXCEPT !.last_update_success = FALSE]

\* DataUpdateCoordinator on a refresh that returned data.
UpdateSucceeded(c, data) ==
    [c EXCEPT !.data = data, !.last_update_success = TRUE]

\* A tick of PublicTransportVictoriaGlobalCoordinator: _async_update_data
\* looks up connector.async_update_all, which raises AttributeError when the
\* Connector has no such method; the bundle is returned only past that call.
CoordinatorTick ==
    /\ coordinator.scheduled
    /\ IF "async_update_all" \in ConnectorMethods
       THEN /\ coordinator' = UpdateSucceeded(coordinator,
                   [departures          |-> departures,
                    disruptions_current |-> disruptions_current,
                    disruptions_planned |-> disruptions_planned])
            /\ last' = Call("_async_update_data", None, FALSE, NoStatus, FALSE,
                            coordinator'.data)
       ELSE /\ coordinator' = UpdateFailed(coordinator)
            /\ last' = Call("_async_update_data", None, FALSE, NoStatus, TRUE,
                            Raised)
    /\ UNCHANGED <<now, departures_path, departures, disruptions_current,
                   disruptions_planned, route, route_type, throttle, pending,
                   requestedAt>>

\* The return of _async_update_data, reached once the call before it has
\* returned: the bundle refers to the Connector's own lists; reading
\* connector.departures raises AttributeError while it was never assigned.
ReturnBundle ==
    /\ coordinator.scheduled
    /\ IF departures = Unset
       THEN /\ coordinator' = UpdateFailed(coordinator)
            /\ last' = Call("_async_update_data", None, FALSE, NoStatus, TRUE,
                            Raised)
       ELSE /\ coordinator' = UpdateSucceeded(coordinator,
                   [departures          |-> departures,
                    disruptions_current |-> disruptions_current,
                    disruptions_planned |-> disruptions_planned])
            /\ last' = Call("_async_update_data", None, FALSE, NoStatus, FALSE,
                            coordinator'.data)
    /\ UNCHANGED <<now, departures_path, departures, disruptions_current,
                   disruptions_planned, route, route_type, throttle, pending,
                   requestedAt>>

-----------------------------------------------------------------------------
(* The sensors *)

ATTR_ATTRIBUTION == "attribution"

ATTRIBUTION ==
    StrV("Licensed from Public Transport Victoria under a Creative Commons Attribution 4.0 International Licence")

\* The departure sensors are numbered range(5).
SensorCount == 5

SensorNumbers == 0..(SensorCount - 1)

\* (self.coordinator.data or {}).get("departures", [])
PublishedDepartures ==
    IF coordinator.data = None THEN <<>> ELSE coordinator.data.departures.list

\* PublicTransportVictoriaSensor.state
SensorState(number) ==
    LET deps == PublishedDepartures IN
    /\ last' = Call("state", IntV(number), FALSE, NoStatus, FALSE,
                    IF Len(deps) > number /\ "departure" \in DOMAIN deps[number + 1]
                    THEN deps[number + 1]["departure"] ELSE StrV("No data"))
    /\ UNCHANGED <<now, departures_path, departures, disruptions_current,
                   disruptions_planned, route, route_type, throttle,
                   coordinator, pending, requestedAt>>

\* PublicTransportVictoriaSensor.extra_state_attributes: attr is the record
\* in the published list, and the assignment writes into it; the record is
\* the Connector's own while the published list is the list the Connector
\* holds.
SensorAttributes(number) ==
    LET deps == PublishedDepartures IN
    IF Len(deps) > number
    THEN LET attr == (ATTR_ATTRIBUTION :> ATTRIBUTION) @@ deps[number + 1] IN
         /\ coordinator' =
                [coordinator EXCEPT !.data.departures.list[number + 1] = attr]
         /\ departures' = IF departures = coordinator.data.departures
                          THEN [departures EXCEPT !.list[number + 1] = attr]
                          ELSE departures
         /\ last' = Call("extra_state_attributes", IntV(number), FALSE,
                         NoStatus, FALSE, JDict(attr))
         /\ UNCHANGED <<now, departures_path, disruptions_current,
                        disruptions_planned, route, route_type, throttle,
                        pending, requestedAt>>
    ELSE /\ last' = Call("extra_state_attributes", IntV(number), FALSE,
                         NoStatus, FALSE, JDict(EmptyDict))
         /\ UNCHANGED <<now, departures_path, departures, disruptions_current,
                        disruptions_planned, route, route_type, throttle,
                        coordinator, pending, requestedAt>>

\* PublicTransportVictoriaDisruptionsCountSensor.state
DisruptionsCountState(current) ==
    LET key == IF current THEN "disruptions_current" ELSE "disruptions_planned"
        dis == IF coordinator.data = None THEN <<>> ELSE coordinator.data[key]
    IN  /\ last' = Call("disruptions_count", IntV(IF current THEN 1 ELSE 0),
                        FALSE, NoStatus, FALSE, IntV(Len(dis)))
        /\ UNCHANGED <<now, departures_path, departures, disruptions_current,
                       disruptions_planned, route, route_type, throttle,
                       coordinator, pending, requestedAt>>

-----------------------------------------------------------------------------
(* The clock *)

ClockStep == SecondsPerMinute

MaxClock == 3

ClockTick ==
    /\ now < MaxClock * ClockStep
    /\ now' = now + ClockStep
    /\ last' = Call("clock", None, FALSE, NoStatus, FALSE, None)
    /\ UNCHANGED <<departures_path, departures, disruptions_current,
                   disruptions_planned, route, route_type, throttle,
                   coordinator, pending, requestedAt>>

-----------------------------------------------------------------------------
(* Inputs: what the upstream API may answer with *)

\* A key the entry does not have.
Missing == [missing |-> TRUE]

\* A dict of the given keys, without those whose value is Missing.
Dict(keys, value(_)) ==
    [k \in {key \in keys : value(key) # Missing} |-> value(k)]

\* A raw departure: the two timestamp fields, and run_ref, which tells the
\* entries of a batch apart.
RawDeparture(est, sched, ref) ==
    Dict({"estimated_departure_utc", "scheduled_departure_utc", "run_ref"},
         LAMBDA k : CASE k = "estimated_departure_utc" -> est
                      [] k = "scheduled_departure_utc" -> sched
                      [] OTHER -> IntV(ref))

DepartureBody(choices) ==
    [departures |->
        [i \in 1..Len(choices) |-> RawDeparture(choices[i][1], choices[i][2], i)]]

SeqsUpTo(S, n) == UNION {[1..k -> S] : k \in 0..n}

MaxBatch == 3

\* The estimated and scheduled values of an entry: a key missing, both
\* null, an unparsable estimate, the scheduled time alone, both times, and
\* the estimated time alone.
TimestampPairs ==
    {<<Missing, Wire(0, 2, 30)>>, <<None, Missing>>, <<None, None>>,
     <<StrV("soon"), Wire(0, 2, 30)>>, <<None, Wire(0, 2, 30)>>,
     <<Wire(0, 1, 0), Wire(0, 2, 30)>>, <<Wire(0, 1, 30), Missing>>,
     <<Wire(0, 3, 0), None>>}

\* Batches of any entries, up to MaxBatch long.
MixedBodies ==
    {DepartureBody(c) : c \in SeqsUpTo(TimestampPairs, MaxBatch)}

\* Batches one longer than the cap: the minutes after the fetch instants,
\* one entry each, in every order.
LongBodies ==
    {DepartureBody(c) :
        c \in {p \in [1..(DepartureCap + 1) ->
                        {<<Wire(0, m, 0), None>> : m \in 3..(DepartureCap + 3)}] :
                  \A i, j \in DOMAIN p : p[i] = p[j] => i = j}}

\* The instants of the fetch: before every timestamp above, between two of
\* one minute, and at one of them.
FetchInstants == {45, 75, 150}

\* A route reference of a disruption.
RouteRef(id, type) ==
    JDict(Dict({"route_id", "route_type"},
               LAMBDA k : IF k = "route_id" THEN id ELSE type))

RouteRefs ==
    {RouteRef(IntV(1), Missing), RouteRef(StrV("1"), IntV(0)),
     RouteRef(IntV(1), IntV(1)), RouteRef(IntV(2), None), StrV("all")}

MaxRoutes == 2

MaxDisruptions == 2

\* The values of a disruption's routes field: no field, null, or a list.
RoutesValues(n) == {Missing, None} \cup {JList(r) : r \in SeqsUpTo(RouteRefs, n)}

\* A raw disruption with the given routes and stops fields.
RawDisruption(id, routes, stops) ==
    JDict(Dict({"disruption_id", "title", "from_time", "url_web", "routes", "stops"},
               LAMBDA k : CASE k = "disruption_id" -> IntV(id)
                            [] k = "title" -> StrV("Works")
                            [] k = "from_time" -> Wire(0, 1, 0)
                            [] k = "url_web" -> StrV("http://ptv")
                            [] k = "routes" -> routes
                            [] OTHER -> stops))

\* The entries of a disruption list: disruptions with the given routes
\* values, one whose stops field is null, and one that is no dict.
RawDisruptions(routesValues) ==
    {[routes |-> r, stops |-> Missing] : r \in routesValues}
        \cup {[routes |-> JList(<<RouteRef(IntV(1), Missing)>>), stops |-> None],
              [nodict |-> TRUE]}

\* The list of the chosen entries, numbered by position from first.
DisruptionList(choices, first) ==
    JList([i \in 1..Len(choices) |->
              IF "nodict" \in DOMAIN choices[i] THEN StrV("n/a")
              ELSE RawDisruption(first + i - 1, choices[i].routes, choices[i].stops)])

\* Responses whose disruptions field is a list: up to MaxDisruptions entries
\* of at most one route each, or one entry of up to MaxRoutes routes.
ListBodies ==
    {[disruptions |-> DisruptionList(c, 1)] :
        c \in SeqsUpTo(RawDisruptions(RoutesValues(1)), MaxDisruptions)
              \cup SeqsUpTo(RawDisruptions(RoutesValues(MaxRoutes)), 1)}

\* Responses whose disruptions field is a dict of categories, each a list of
\* at most one entry or null.
MappingValues(first) ==
    {None} \cup {DisruptionList(c, first) :
                    c \in SeqsUpTo(RawDisruptions(RoutesValues(1)), 1)}

MappingBodies ==
    {[disruptions |-> [dict |-> EmptyDict, keys |-> <<>>]]}
    \cup {[disruptions |-> [dict |-> [general |-> g], keys |-> <<"general">>]] :
             g \in MappingValues(1)}
    \cup {[disruptions |-> [dict |-> [general |-> g, metro_train |-> m],
                            keys |-> <<"general", "metro_train">>]] :
             g \in MappingValues(1), m \in MappingValues(2)}

\* Responses with no disruptions field, or a null one.
OtherBodies == {EmptyDict, [disruptions |-> None]}

DisruptionBodies == ListBodies \cup MappingBodies \cup OtherBodies

\* No response prepared: the actions draw their own.
NoBody == [nobody |-> TRUE]

\* The departure responses of the full specification: no entry, an
\* estimated time, a scheduled time, both out of order, an entry with
\* neither key.
SpecDepartureBodies ==
    {DepartureBody(c) :
        c \in {<<>>,
               <<<<Wire(0, 2, 30), None>>>>,
               <<<<None, Wire(0, 5, 0)>>>>,
               <<<<None, Wire(0, 5, 0)>>, <<Wire(0, 2, 30), None>>>>,
               <<<<Wire(0, 2, 30), None>>, <<Missing, Missing>>>>}}

\* The disruption responses of the full specification.
SpecDisruptionBodies ==
    {[disruptions |-> DisruptionList(c, 1)] :
        c \in SeqsUpTo({[routes |-> JList(<<RouteRef(IntV(1), Missing)>>),
                         stops |-> Missing],
                        [routes |-> JList(<<RouteRef(IntV(2), None)>>),
                         stops |-> Missing]}, 1)}
    \cup {[disruptions |->
              [dict |-> [general |-> DisruptionList(
                            <<[routes |-> JList(<<RouteRef(IntV(1), Missing)>>),
                               stops |-> Missing]>>, 1),
                         metro_train |-> DisruptionList(
                            <<[routes |-> JList(<<RouteRef(StrV("1"), IntV(0))>>),
                               stops |-> Missing]>>, 2)],
               keys |-> <<"general", "metro_train">>]]}

\* The entries of a listing a discovery endpoint answers with: an id and a
\* name, two names for one id, and an entry without its name.
ListingEntries ==
    {[id |-> IntV(1), name |-> StrV("A")],
     [id |-> IntV(1), name |-> StrV("B")],
     [id |-> IntV(2), name |-> StrV("A")],
     [id |-> IntV(2), name |-> Missing]}

MaxListing == 2

\* An answer without its list.
NoListing == [nolisting |-> TRUE]

Listings == {[items |-> s] : s \in SeqsUpTo(ListingEntries, MaxListing)}
                \cup {NoListing}

\* The JSON body of a listing, under the keys of the endpoint asked.
ListingBody(listing, listKey, idKey, nameKey) ==
    IF listing = NoListing THEN EmptyDict
    ELSE [k \in {listKey} |->
             [i \in DOMAIN listing.items |->
                 LET value(key) == IF key = idKey THEN listing.items[i].id
                                   ELSE listing.items[i].name
                 IN  Dict({idKey, nameKey}, value)]]

\* The route types and the routes a caller selects.
SelectableRouteTypes == {IntV(0), IntV(1)}

SelectableRoutes == {IntV(1), IntV(2)}

-----------------------------------------------------------------------------
(* Specifications *)

\* Connector.__init__ has run, and a coordinator has been built over it.
Constructed ==
    /\ departures_path = Unset
    /\ departures = Unset
    /\ disruptions_current = <<>>
    /\ disruptions_planned = <<>>
    /\ throttle = None
    /\ coordinator = [data |-> None, last_update_success |-> TRUE,
                      scheduled |-> TRUE]
    /\ requestedAt = Never
    /\ last = [op |-> "__init__", arg |-> None, request |-> FALSE,
               status |-> NoStatus, raised |-> FALSE, returned |-> None,
               flip |-> FALSE]

Init ==
    /\ Constructed
    /\ now = 0
    /\ route = IntV(1)
    /\ route_type = IntV(0)
    /\ pending = NoBody

Setup == \E status \in HttpStatuses, body \in SpecDepartureBodies :
             ConnectorInit(status, body)

RefreshDepartures == \E status \in HttpStatuses, body \in SpecDepartureBodies :
                         AsyncUpdate(status, body)

RefreshDisruptions ==
    \E disruption_status \in {0, 1}, status \in HttpStatuses,
       body \in SpecDisruptionBodies :
        AsyncUpdateDisruptions(disruption_status, status, body)

Next ==
    \/ Setup
    \/ RefreshDepartures
    \/ RefreshDisruptions
    \/ CoordinatorTick
    \/ ClockTick

Spec == Init /\ [][Next]_vars

\* The Departure Processor on every batch: the first refresh of a Connector
\* answered 200 with the prepared body.
InitDepartures ==
    /\ Constructed
    /\ now \in FetchInstants
    /\ route = IntV(1)
    /\ route_type = IntV(0)
    /\ pending \in MixedBodies \cup LongBodies

FirstRefresh == ConnectorInit(HttpOk, pending)

NextDepartures == FirstRefresh

SpecDepartures == InitDepartures /\ [][NextDepartures]_vars

\* The Disruption Processor on every response and configured route: a
\* disruptions refresh answered 200 with the prepared body.
InitDisruptions ==
    /\ Constructed
    /\ now = 0
    /\ route \in {IntV(1), StrV("2")}
    /\ route_type \in {IntV(0), IntV(1)}
    /\ pending \in DisruptionBodies

RefreshPrepared ==
    \E disruption_status \in {0, 1} :
        AsyncUpdateDisruptions(disruption_status, HttpOk, pending)

NextDisruptions == RefreshPrepared

SpecDisruptions == InitDisruptions /\ [][NextDisruptions]_vars

\* The discovery calls on a Connector that also refreshes: every call is
\* answered with the prepared listing under its own keys.
InitDiscovery ==
    /\ Constructed
    /\ now = 0
    /\ route = IntV(1)
    /\ route_type = IntV(0)
    /\ pending \in Listings

DiscoverRouteTypes ==
    \E status \in HttpStatuses :
        AsyncRouteTypes(status, ListingBody(pending, "route_types",
                                            "route_type", "route_type_name"))

DiscoverRoutes ==
    \E selected \in SelectableRouteTypes, status \in HttpStatuses :
        AsyncRoutes(selected, status,
                    ListingBody(pending, "routes", "route_id", "route_name"))

DiscoverDirections ==
    \E selected \in SelectableRoutes, status \in HttpStatuses :
        AsyncDirections(selected, status,
                        ListingBody(pending, "directions", "direction_id",
                                    "direction_name"))

DiscoverStops ==
    \E selected \in SelectableRoutes, status \in HttpStatuses :
        AsyncStops(selected, status,
                   ListingBody(pending, "stops", "stop_id", "stop_name"))

\* The refreshes that fill the Snapshot between discovery calls.
SetupAnswered ==
    ConnectorInit(HttpOk, DepartureBody(<<<<Wire(0, 2, 30), None>>>>))

RefreshDisruptionsAnswered ==
    \E disruption_status \in {0, 1} :
        AsyncUpdateDisruptions(
            disruption_status, HttpOk,
            [disruptions |-> DisruptionList(
                <<[routes |-> JList(<<RouteRef(IntV(1), Missing)>>),
                   stops |-> Missing]>>, 1)])

NextDiscovery ==
    \/ DiscoverRouteTypes
    \/ DiscoverRoutes
    \/ DiscoverDirections
    \/ DiscoverStops
    \/ SetupAnswered
    \/ RefreshDisruptionsAnswered

SpecDiscovery == InitDiscovery /\ [][NextDiscovery]_vars

\* The readers over a Connector, from the point where the call that
\* precedes the return of _async_update_data has returned: the first refresh
\* answered with the prepared body, the disruptions refreshes, the return of
\* the bundle, and the sensor properties.
InitReaders ==
    /\ Constructed
    /\ now = 0
    /\ route = IntV(1)
    /\ route_type = IntV(0)
    /\ pending \in SpecDepartureBodies

SetupPrepared == \E status \in HttpStatuses : ConnectorInit(status, pending)

ReadState == \E number \in SensorNumbers : SensorState(number)

ReadAttributes == \E number \in SensorNumbers : SensorAttributes(number)

ReadDisruptionsCount == \E current \in BOOLEAN : DisruptionsCountState(current)

NextReaders ==
    \/ SetupPrepared
    \/ RefreshDisruptionsAnswered
    \/ ReturnBundle
    \/ ReadState
    \/ ReadAttributes
    \/ ReadDisruptionsCount

SpecReaders == InitReaders /\ [][NextReaders]_vars

-----------------------------------------------------------------------------
(* Properties *)

\* The latest step was a call of the given operations that sent its GET.
Requested(ops) == last.op \in ops /\ last.request

DeparturesOps == {"_init", "async_update"}

\* The latest step was a departures refresh that stored what a 200 carried.
DeparturesStored ==
    Requested(DeparturesOps) /\ last.status = HttpOk /\ ~last.raised

\* An instant truncated to its minute.
MinuteOf(t) == t \div SecondsPerMinute

\* C1: after a successful departures refresh, whatever the batch and the
\* instant of the fetch, the stored departures are at most 5, strictly
\* ascending by instant, no two of one minute, and all strictly after the
\* now of the fetch.
C1_StoredDeparturesWellFormed ==
    DeparturesStored =>
        LET ds == departures.list IN
        /\ Len(ds) <= 5
        /\ \A i \in 1..(Len(ds) - 1) : ds[i]["_dep_utc"] < ds[i + 1]["_dep_utc"]
        /\ \A i, j \in 1..Len(ds) :
               i # j => MinuteOf(ds[i]["_dep_utc"]) # MinuteOf(ds[j]["_dep_utc"])
        /\ \A i \in 1..Len(ds) : ds[i]["_dep_utc"] > now

\* C1's case: a batch of more than 5 future minutes, out of order, was cut
\* to 5.
C1_Witness ==
    /\ DeparturesStored
    /\ Len(pending.departures) > 5
    /\ Len(departures.list) = 5
    /\ pending.departures[1]["estimated_departure_utc"].m
           > pending.departures[2]["estimated_departure_utc"].m

\* The latest step was a disruptions refresh that stored what a 200 carried.
DisruptionsStored ==
    Requested({"async_update_disruptions"}) /\ last.status = HttpOk

\* The field a disruptions refresh called with the latest argument stores to.
StoredDisruptions ==
    IF last.arg = IntV(0) THEN disruptions_current ELSE disruptions_planned

\* A normalised record refers to the configured route: some route of it has
\* the configured id as a string, and no type or the configured type as a
\* string.
RefersToConfiguredRoute(n) ==
    \E i \in 1..Len(n.routes) :
        /\ PyStr(n.routes[i].route_id) = PyStr(route)
        /\ \/ n.routes[i].route_type = None
           \/ PyStr(n.routes[i].route_type) = PyStr(route_type)

Range(f) == {f[i] : i \in DOMAIN f}

\* C2: after a successful disruptions refresh the stored collection is
\* exactly the normalised records that refer to the configured route: none
\* without such a route is stored and none with one is left out.
C2_StoredDisruptionsAreTheMatching ==
    DisruptionsStored =>
        Range(StoredDisruptions) =
            {n \in Range(Normalised(DisruptionsRaw(pending))) :
                RefersToConfiguredRoute(n)}

\* C2's case: of two normalised records one was stored and one was left out,
\* and the stored one matched on a route given as a string against the
\* configured integer.
C2_Witness ==
    /\ DisruptionsStored
    /\ Len(StoredDisruptions) = 1
    /\ Len(Normalised(DisruptionsRaw(pending))) = 2
    /\ StoredDisruptions[1].routes[1].route_id = StrV("1")
    /\ route = IntV(1)

RECURSIVE SumOfListLengths(_, _)
\* The lengths of the lists among the values of a dict, added up.
SumOfListLengths(d, keys) ==
    IF keys = {} THEN 0
    ELSE LET k == CHOOSE key \in keys : TRUE IN
         (IF IsList(d[k]) THEN Len(d[k].list) ELSE 0)
             + SumOfListLengths(d, keys \ {k})

\* C10: the raw disruption list of a disruptions refresh is as long as the
\* disruptions field when that is a list, and as long as all the lists of
\* the field together when it is a dict; every entry of the field is in it.
C10_FlatteningKeepsEveryEntry ==
    DisruptionsStored =>
        LET field == Get(pending, "disruptions")
            raw   == DisruptionsRaw(pending)
        IN  /\ IsList(field) => raw = field.list
            /\ IsDict(field) =>
                   /\ Len(raw) = SumOfListLengths(field.dict, DOMAIN field.dict)
                   /\ \A k \in DOMAIN field.dict :
                          IsList(field.dict[k]) =>
                              Range(field.dict[k].list) \subseteq Range(raw)

\* C10's case: a dict of two categories with one disruption each.
C10_Witness ==
    /\ DisruptionsStored
    /\ IsDict(Get(pending, "disruptions"))
    /\ Get(pending, "disruptions").keys = <<"general", "metro_train">>
    /\ Len(DisruptionsRaw(pending)) = 2
    /\ DisruptionsRaw(pending)[1] # DisruptionsRaw(pending)[2]

\* A timestamp field of a raw departure is present: the key is there and its
\* value is not null.
Present(r, k) == k \in DOMAIN r /\ r[k] # None

\* The timestamp of a raw departure: the estimated one if present, else the
\* scheduled one, else none.
ChosenTimestamp(r) ==
    IF Present(r, "estimated_departure_utc") THEN r["estimated_departure_utc"]
    ELSE IF Present(r, "scheduled_departure_utc") THEN r["scheduled_departure_utc"]
    ELSE None

\* A raw departure is malformed: it has no timestamp, or one that does not
\* parse.
Malformed(r) == ~strptime(ChosenTimestamp(r)).ok

\* C9: in a departures refresh answered 200, an entry with no timestamp
\* (missing or null) or an unparsable one is dropped and does not abort the
\* batch: the refresh does not raise, stores no malformed entry, and stores
\* an entry for the minute of every well-formed entry after now (in batches
\* of at most 5 entries, which the cap does not cut).
C9_MalformedEntryDoesNotAbortBatch ==
    (Requested(DeparturesOps) /\ last.status = HttpOk
        /\ Len(pending.departures) <= 5) =>
        /\ ~last.raised
        /\ departures # Unset
        /\ \A i \in 1..Len(departures.list) :
               \E j \in 1..Len(pending.departures) :
                   /\ ~Malformed(pending.departures[j])
                   /\ pending.departures[j].run_ref = departures.list[i].run_ref
        /\ \A j \in 1..Len(pending.departures) :
               LET r == pending.departures[j] IN
               (~Malformed(r) /\ strptime(ChosenTimestamp(r)).t > now) =>
                   \E i \in 1..Len(departures.list) :
                       MinuteOf(departures.list[i]["_dep_utc"])
                           = MinuteOf(strptime(ChosenTimestamp(r)).t)

\* The step is a call: the latest call changes.
IsCall == last'.flip # last.flip

\* C3: a refresh answered with another status than 200 leaves departures,
\* disruptions_current and disruptions_planned as they were; a field of the
\* Snapshot changes only in a refresh answered 200.
C3_FailedRefreshKeepsSnapshot ==
    [][/\ (IsCall /\ last'.request /\ last'.status # HttpOk)
           => Snapshot' = Snapshot
       /\ Snapshot' # Snapshot
           => (IsCall /\ last'.request /\ last'.status = HttpOk /\ ~last'.raised)]_vars

\* C3's case: a departures refresh answered 503 after departures were
\* stored, which are still there.
C3_Witness ==
    /\ Requested({"async_update"})
    /\ last.status # HttpOk
    /\ departures # Unset
    /\ Len(departures.list) = 2
    /\ Len(disruptions_current) = 1

\* C4: a refresh answered with another status than 200 does not raise.
C4_FailedRefreshDoesNotRaise ==
    (last.request /\ last.status # HttpOk) => ~last.raised

\* C5: a call of the departures refresh made within the minimum interval of
\* the call that last ran sends no GET and leaves the Snapshot as that call
\* left it; a first call, and a call made after the interval has elapsed,
\* sends its GET.
C5_DeparturesRefreshThrottled ==
    [][(IsCall /\ last'.op \in DeparturesOps) =>
          IF requestedAt # Never /\ now - requestedAt <= 2 * SecondsPerMinute
          THEN ~last'.request /\ Snapshot' = Snapshot /\ ~last'.raised
          ELSE last'.request /\ requestedAt' = now]_vars

\* C5's case: a second call, throttled, with departures stored; the time of
\* the first call is still the time of the latest GET.
C5_Witness ==
    /\ last.op = "async_update"
    /\ ~last.request
    /\ departures # Unset
    /\ Len(departures.list) > 0
    /\ now - requestedAt = 2 * SecondsPerMinute

\* C6: a call of the disruptions refresh that directly follows, at the same
\* instant, a call of it with the same status that sent its GET, sends no
\* GET and leaves the Snapshot as it was.
C6_DisruptionsRefreshThrottled ==
    [][(/\ IsCall
        /\ last.op = "async_update_disruptions"
        /\ last.request
        /\ last'.op = "async_update_disruptions"
        /\ last'.arg = last.arg)
          => (~last'.request /\ Snapshot' = Snapshot)]_vars

\* The bundle of the Connector's Snapshot fields.
Bundle ==
    [departures          |-> departures,
     disruptions_current |-> disruptions_current,
     disruptions_planned |-> disruptions_planned]

\* C7: a tick of the global coordinator succeeds and publishes the bundle of
\* the Connector's departures, disruptions_current and disruptions_planned.
C7_TickPublishesBundle ==
    last.op = "_async_update_data" =>
        /\ ~last.raised
        /\ coordinator.last_update_success
        /\ coordinator.data = Bundle

DiscoveryOps ==
    {"async_route_types", "async_routes", "async_directions", "async_stops"}

\* The prepared listing has its list, and every entry its name.
ListingComplete ==
    /\ pending # NoListing
    /\ \A i \in DOMAIN pending.items : pending.items[i].name # Missing

\* f maps exactly the ids of the prepared listing, each to the name of the
\* last entry of that id.
IsMappingOfListing(f) ==
    /\ DOMAIN f = {pending.items[i].id : i \in DOMAIN pending.items}
    /\ \A i \in DOMAIN pending.items :
           (\A j \in DOMAIN pending.items :
                j > i => pending.items[j].id # pending.items[i].id)
               => f[pending.items[i].id] = pending.items[i].name

\* C11: a discovery call answered with another status than 200 returns None
\* without raising and leaves route, route_type and departures_path as they
\* were; one answered 200 with a complete listing returns the id-to-name
\* mapping of the listing and sets its selector (async_routes route_type,
\* async_directions and async_stops route); a discovery call changes nothing
\* but its own selector, and never a field of the Snapshot.
C11_DiscoveryCallFrame ==
    [][(IsCall /\ last'.op \in DiscoveryOps) =>
          /\ Snapshot' = Snapshot
          /\ departures_path' = departures_path
          /\ throttle' = throttle
          /\ last'.op = "async_route_types" =>
                 route' = route /\ route_type' = route_type
          /\ last'.op = "async_routes" =>
                 route' = route /\ route_type' \in {route_type, last'.arg}
          /\ last'.op \in {"async_directions", "async_stops"} =>
                 route_type' = route_type /\ route' \in {route, last'.arg}
          /\ last'.status # HttpOk =>
                 /\ ~last'.raised
                 /\ last'.returned = None
                 /\ route' = route
                 /\ route_type' = route_type
          /\ (last'.status = HttpOk /\ ListingComplete) =>
                 /\ ~last'.raised
                 /\ "dict" \in DOMAIN last'.returned
                 /\ IsMappingOfListing(last'.returned.dict)
                 /\ last'.op = "async_routes" => route_type' = last'.arg
                 /\ last'.op \in {"async_directions", "async_stops"} =>
                        route' = last'.arg]_vars

\* async_routes answered 200 over a populated Snapshot: two entries of one id
\* became one mapping entry, and the route type selected was set.
C11_Witness ==
    /\ last.op = "async_routes"
    /\ last.status = HttpOk
    /\ last.arg = IntV(1)
    /\ route_type = IntV(1)
    /\ last.returned = JDict([id \in {IntV(1)} |-> StrV("B")])
    /\ departures # Unset
    /\ disruptions_current # <<>>

\* C13: a disruptions refresh answered 200 with status 0 leaves
\* disruptions_planned and departures as they were, and with status 1 leaves
\* disruptions_current and departures as they were; a departures refresh
\* leaves both disruption fields as they were; a disruptions refresh returns
\* the field of its status as it stands after the call.
C13_RefreshFrame ==
    [][IsCall =>
          /\ (last'.op = "async_update_disruptions" /\ last'.status = HttpOk
                  /\ last'.arg = IntV(0)) =>
                 /\ disruptions_planned' = disruptions_planned
                 /\ departures' = departures
                 /\ last'.returned = JList(disruptions_current')
          /\ (last'.op = "async_update_disruptions" /\ last'.status = HttpOk
                  /\ last'.arg = IntV(1)) =>
                 /\ disruptions_current' = disruptions_current
                 /\ departures' = departures
                 /\ last'.returned = JList(disruptions_planned')
          /\ last'.op = "async_update_disruptions" =>
                 last'.returned = JList(IF last'.arg = IntV(0)
                                        THEN disruptions_current'
                                        ELSE disruptions_planned')
          /\ last'.op \in DeparturesOps =>
                 /\ disruptions_current' = disruptions_current
                 /\ disruptions_planned' = disruptions_planned]_vars

\* A planned refresh answered 200 has stored and returned a list that differs
\* from the current one, over stored departures.
C13_Witness ==
    /\ last.op = "async_update_disruptions"
    /\ last.status = HttpOk
    /\ last.arg = IntV(1)
    /\ disruptions_planned # <<>>
    /\ disruptions_current # <<>>
    /\ disruptions_planned # disruptions_current
    /\ last.returned = JList(disruptions_planned)
    /\ departures \notin {Unset, JList(<<>>)}

\* The instant of a raw departure whose timestamp parses.
Instant(r) == strptime(ChosenTimestamp(r)).t

\* A raw departure has an instant strictly after now.
IsFuture(r) == ~Malformed(r) /\ Instant(r) > now

\* Entry j of the batch is the first, in the order of the response, of the
\* entries after now of its minute.
FirstFutureOfMinute(j) ==
    LET rs == pending.departures IN
    /\ IsFuture(rs[j])
    /\ \A k \in 1..(j - 1) :
           IsFuture(rs[k]) => MinuteOf(Instant(rs[k])) # MinuteOf(Instant(rs[j]))

\* The minutes that have an entry after now.
FutureMinutes ==
    {MinuteOf(Instant(pending.departures[j])) :
        j \in {k \in DOMAIN pending.departures : IsFuture(pending.departures[k])}}

\* C14: after a successful departures refresh, every stored departure is the
\* first entry after now of its minute in the order of the response, and,
\* when the minutes with an entry after now are at most 5, each of them has
\* that entry stored: an entry not after now never takes the place of a later
\* entry of its minute.
C14_FirstFutureEntryOfEachMinute ==
    DeparturesStored =>
        LET ds == departures.list
            rs == pending.departures
        IN  /\ \A i \in DOMAIN ds :
                   \E j \in DOMAIN rs :
                       /\ FirstFutureOfMinute(j)
                       /\ ds[i]["run_ref"] = rs[j]["run_ref"]
                       /\ ds[i]["_dep_utc"] = Instant(rs[j])
            /\ Cardinality(FutureMinutes) <= DepartureCap =>
                   \A j \in DOMAIN rs :
                       FirstFutureOfMinute(j) =>
                           \E i \in DOMAIN ds : ds[i]["run_ref"] = rs[j]["run_ref"]

\* Two entries of one minute, the first not after now and the second after
\* it: exactly the second was stored.
C14_Witness ==
    /\ DeparturesStored
    /\ Len(pending.departures) = 2
    /\ ~Malformed(pending.departures[1])
    /\ ~IsFuture(pending.departures[1])
    /\ IsFuture(pending.departures[2])
    /\ MinuteOf(Instant(pending.departures[1]))
           = MinuteOf(Instant(pending.departures[2]))
    /\ Len(departures.list) = 1
    /\ departures.list[1]["run_ref"] = pending.departures[2]["run_ref"]

\* The operations that read the Snapshot: the return of the bundle and the
\* sensor properties.
ReaderOps ==
    {"_async_update_data", "state", "extra_state_attributes",
     "disruptions_count"}

CarriesParsedInstant(r) == "_dep_utc" \in DOMAIN r

\* C15: no departure record of the Snapshot, of the published bundle, or
\* returned as the attributes of a departure sensor carries the parsed
\* instant.
C15_ParsedInstantNotExposed ==
    /\ departures # Unset =>
           \A i \in DOMAIN departures.list :
               ~CarriesParsedInstant(departures.list[i])
    /\ coordinator.data # None =>
           \A i \in DOMAIN coordinator.data.departures.list :
               ~CarriesParsedInstant(coordinator.data.departures.list[i])
    /\ last.op = "extra_state_attributes" =>
           ~CarriesParsedInstant(last.returned.dict)

====
